---- MODULE Spec2Model ----
(***************************************************************************)
(* State-machine model of the card-fraud demo: the JSON file store         *)
(* (db.js) and the two request handlers of server.js, POST /api/check and  *)
(* POST /api/action.                                                       *)
(*                                                                         *)
(* Conventions.                                                            *)
(*  - An optional JavaScript value (null / undefined / absent) is a        *)
(*    sequence of length 0 or 1: None is <<>>, Some(x) is <<x>>.           *)
(*  - A falsy string input (missing cardNumber or action) is "".           *)
(*  - Timestamps are whole hours since an epoch; the wall clock is the     *)
(*    variable clock.                                                      *)
(*  - nanoid() is a fresh-identifier counter, nextId.                      *)
(*  - Node runs one handler at a time; a handler is interrupted only at an *)
(*    await.  POST /api/check has one await (the ipapi lookup, taken only  *)
(*    when a coordinate is missing); POST /api/action has none.            *)
(*  - Email alerts (sendAlertEmail) touch no modelled state and are left   *)
(*    out.                                                                 *)
(***************************************************************************)
EXTENDS Integers, Sequences, FiniteSets, TLC

VARIABLES dbFile, pending, clock, nextId, last

vars == <<dbFile, pending, clock, nextId, last>>

-----------------------------------------------------------------------------
(* Bounds and input sets *)

\* Number of history events one run may generate.
MaxEvents == 3

\* Number of check requests that may be awaiting the geolocation lookup.
MaxPending == 1

\* History cap of addHistory.
HistoryCap == 200

None == <<>>
Some(x) == <<x>>

Cards == {"c1", "c2"}
CardInputs == Cards \cup {""}

RecognizedActions == {"continue", "report", "freeze", "block"}
ActionInputs == RecognizedActions \cup {"refund", ""}

\* Instants (hours) the wall clock and caller-supplied ts range over.
Times == {0, 19}
TsInputs == {None} \cup {Some(t) : t \in Times}

\* Coordinates a request body may carry (degrees), None when absent.
LatInputs == {None, Some(6)}
LonInputs == {None, Some(1)}

\* What the ipapi lookup may answer: a location, a body without one, or an
\* exception.
ServerLoc == [latitude |-> 12, longitude |-> 1]
GeoOutcomes == {"ok", "nodata", "throw"}

NoteText == "No previous location for this card (first time or missing)."

-----------------------------------------------------------------------------
(* utils.haversineDistance *)

\* ToNumber of a coordinate in arithmetic: null coerces to 0.
Num(v) == IF v = None THEN 0 ELSE v[1]

Abs(x) == IF x < 0 THEN -x ELSE x

\* Great-circle distance, Earth radius 6371 km, rounded up to whole km (which
\* keeps every comparison "d > n" with an integer n), tabulated on the grid
\* lat in {0, 6, 12}, |dlon| in {0, 1}.
HaversineTable(latA, latB, dLon) ==
    LET lo == IF latA <= latB THEN latA ELSE latB
        hi == IF latA <= latB THEN latB ELSE latA
    IN  CASE lo = hi /\ dLon = 0 -> 0
          [] lo = 0 /\ hi = 0 /\ dLon = 1 -> 112
          [] lo = 6 /\ hi = 6 /\ dLon = 1 -> 111
          [] lo = 12 /\ hi = 12 /\ dLon = 1 -> 109
          [] lo = 0 /\ hi = 6 /\ dLon = 0 -> 668
          [] lo = 0 /\ hi = 6 /\ dLon = 1 -> 677
          [] lo = 6 /\ hi = 12 /\ dLon = 0 -> 668
          [] lo = 6 /\ hi = 12 /\ dLon = 1 -> 677
          [] lo = 0 /\ hi = 12 /\ dLon = 0 -> 1335
          [] lo = 0 /\ hi = 12 /\ dLon = 1 -> 1339

haversineDistance(lat1, lon1, lat2, lon2) ==
    HaversineTable(Num(lat1), Num(lat2), Abs(Num(lon1) - Num(lon2)))

-----------------------------------------------------------------------------
(* db.js *)

DefaultCard(cardNumber) ==
    [cardNumber |-> cardNumber, lastSeen |-> None, status |-> "active",
     reported |-> FALSE, history |-> <<>>]

\* ensure(): the file after the call (created with an empty collection when
\* absent, untouched otherwise).
ensure(file) == IF file = None THEN Some([cards |-> <<>>]) ELSE file

\* readDB(): the parsed document (the file itself becomes ensure(file)).
readDB(file) == ensure(file)[1]

\* writeDB(data): the file after the call.
writeDB(data) == Some(data)

\* Array.prototype.findIndex, 1-based, 0 when nothing matches.
findIndex(cards, cardNumber) ==
    IF \E i \in 1..Len(cards) : cards[i].cardNumber = cardNumber
    THEN CHOOSE i \in 1..Len(cards) :
            /\ cards[i].cardNumber = cardNumber
            /\ \A j \in 1..(i - 1) : cards[j].cardNumber # cardNumber
    ELSE 0

\* getCard(cardNumber): None for undefined.
getCard(file, cardNumber) ==
    LET db == readDB(file)
        idx == findIndex(db.cards, cardNumber)
    IN  IF idx = 0 THEN None ELSE Some(db.cards[idx])

\* Mutant of saveCard: a record not found is written over the first record
\* of a non-empty file.
saveCard_OverwritesFirst(file, card) ==
    LET db == readDB(file)
        idx == findIndex(db.cards, card.cardNumber)
    IN  IF idx = 0
        THEN IF db.cards = <<>>
             THEN writeDB([db EXCEPT !.cards = Append(db.cards, card)])
             ELSE writeDB([db EXCEPT !.cards[1] = card])
        ELSE writeDB([db EXCEPT !.cards[idx] = card])

\* Mutant of saveCard: the record is pushed without looking for an existing one.
saveCard_AlwaysPush(file, card) ==
    LET db == readDB(file)
    IN  writeDB([db EXCEPT !.cards = Append(db.cards, card)])

\* saveCard(card): the file after the call.
saveCard(file, card) ==
    LET db == readDB(file)
        idx == findIndex(db.cards, card.cardNumber)
    IN  IF idx = 0
        THEN writeDB([db EXCEPT !.cards = Append(db.cards, card)])
        ELSE writeDB([db EXCEPT !.cards[idx] = card])

\* Mutant of unshiftCapped: the truncation keeps the last 200 entries
\* (slice(-200)), dropping the newest.
unshiftCapped_DropsNewest(history, entry) ==
    LET h == <<entry>> \o history
    IN  IF Len(h) > HistoryCap THEN SubSeq(h, 2, HistoryCap + 1) ELSE h

\* history.unshift(entry) followed by the slice(0, 200) truncation.
unshiftCapped(history, entry) ==
    LET h == <<entry>> \o history
    IN  IF Len(h) > HistoryCap THEN SubSeq(h, 1, HistoryCap) ELSE h

\* Mutant of addHistory: the entry is pushed at the end of the history.
addHistory_Pushes(file, cardNumber, entry) ==
    LET found == getCard(file, cardNumber)
        card == IF found = None THEN DefaultCard(cardNumber) ELSE found[1]
        h == Append(card.history, entry)
    IN  saveCard(ensure(file),
                 [card EXCEPT !.history =
                     IF Len(h) > HistoryCap THEN SubSeq(h, 1, HistoryCap) ELSE h])

\* addHistory(cardNumber, entry): the file after the call.
addHistory(file, cardNumber, entry) ==
    LET found == getCard(file, cardNumber)
        card == IF found = None THEN DefaultCard(cardNumber) ELSE found[1]
    IN  saveCard(ensure(file),
                 [card EXCEPT !.history = unshiftCapped(card.history, entry)])

\* Mutant of updateLastSeen: an observation that is not strictly newer than
\* the stored one is ignored.
updateLastSeen_OnlyNewer(file, cardNumber, lastSeen) ==
    LET found == getCard(file, cardNumber)
        card == IF found = None THEN DefaultCard(cardNumber) ELSE found[1]
        stale == card.lastSeen # None
                 /\ lastSeen.timestamp <= card.lastSeen[1].timestamp
    IN  IF stale THEN saveCard(ensure(file), card)
        ELSE saveCard(ensure(file), [card EXCEPT !.lastSeen = Some(lastSeen)])

\* updateLastSeen(cardNumber, lastSeen): the file after the call.
updateLastSeen(file, cardNumber, lastSeen) ==
    LET found == getCard(file, cardNumber)
        card == IF found = None THEN DefaultCard(cardNumber) ELSE found[1]
    IN  saveCard(ensure(file), [card EXCEPT !.lastSeen = Some(lastSeen)])

\* getAllCards()
getAllCards(file) == readDB(file).cards

-----------------------------------------------------------------------------
(* server.js, POST /api/check *)

\* Mutant of RiskRule: the distance thresholds are inclusive.
RiskRule_InclusiveDistance(distKm, diffHours) ==
    IF distKm >= 500 /\ diffHours < 6 THEN "HIGH"
    ELSE IF distKm >= 100 /\ diffHours < 24 THEN "MEDIUM"
    ELSE "LOW"

\* The rule-based scoring of lines 71-73.
RiskRule(distKm, diffHours) ==
    IF distKm > 500 /\ diffHours < 6 THEN "HIGH"
    ELSE IF distKm > 100 /\ diffHours < 24 THEN "MEDIUM"
    ELSE "LOW"

\* Math.abs((new Date(now) - lastTs) / (1000 * 60 * 60))
diffHoursOf(now, lastTs) == Abs(now - lastTs)

\* The guard of the scoring branch: card.lastSeen && curLat != null &&
\* curLon != null.  A stored lastSeen object is truthy whatever its fields.
hasComparableLocation(card, curLat, curLon) ==
    card.lastSeen # None /\ curLat # None /\ curLon # None

\* "compute risk": the risk and details before the status overrides.
computeRisk(card, curLat, curLon, now) ==
    IF hasComparableLocation(card, curLat, curLon)
    THEN LET prev == card.lastSeen[1]
             distKm == haversineDistance(prev.lat, prev.lon, curLat, curLon)
             diffHours == diffHoursOf(now, prev.timestamp)
         IN  [risk |-> RiskRule(distKm, diffHours),
              details |-> [distance_km |-> distKm,
                           hours_since_last |-> diffHours]]
    ELSE [risk |-> "LOW", details |-> [note |-> NoteText]]

\* Mutant of statusOverride: the overrides only replace a LOW risk.
statusOverride_OnlyLow(status, risk) ==
    IF risk # "LOW" THEN risk
    ELSE IF status = "blocked" THEN "BLOCKED"
    ELSE IF status = "frozen" THEN "FROZEN"
    ELSE risk

\* Mutant of statusOverride: only a frozen card overrides the computed risk.
statusOverride_SkipsBlocked(status, risk) ==
    IF status = "frozen" THEN "FROZEN" ELSE risk

\* "status overrides"
statusOverride(status, risk) ==
    LET r1 == IF status = "blocked" THEN "BLOCKED" ELSE risk
    IN  IF status = "frozen" THEN "FROZEN" ELSE r1

\* The history entry of a check.
checkEntry(id, curLat, curLon, now, risk) ==
    [id |-> id, lat |-> curLat, lon |-> curLon, timestamp |-> now,
     risk |-> risk, action |-> "checked"]

\* Mutant of checkBody: a check on a blocked or frozen card is logged but
\* does not move lastSeen.
checkBody_OverrideKeepsLastSeen(file, cardNumber, curLat, curLon, now, id) ==
    LET found == getCard(file, cardNumber)
        card == IF found = None THEN DefaultCard(cardNumber) ELSE found[1]
        computed == computeRisk(card, curLat, curLon, now)
        risk == statusOverride(card.status, computed.risk)
        entry == checkEntry(id, curLat, curLon, now, risk)
        f1 == addHistory(ensure(file), cardNumber, entry)
        f2 == IF risk \in {"BLOCKED", "FROZEN"}
              THEN f1
              ELSE updateLastSeen(f1, cardNumber,
                             [lat |-> curLat, lon |-> curLon, timestamp |-> now])
        saved == getCard(f2, cardNumber)[1]
    IN  [file |-> f2,
         found |-> found,
         res |-> [code |-> 200,
                  card |-> [status |-> saved.status, reported |-> saved.reported,
                            lastSeen |-> saved.lastSeen],
                  risk |-> risk,
                  details |-> computed.details]]

\* The handler from "load/create card" to the response: everything after the
\* lookup, which runs without interruption.  Yields the file afterwards, the
\* result of the first getCard and the response.
checkBody(file, cardNumber, curLat, curLon, now, id) ==
    LET found == getCard(file, cardNumber)
        card == IF found = None THEN DefaultCard(cardNumber) ELSE found[1]
        computed == computeRisk(card, curLat, curLon, now)
        risk == statusOverride(card.status, computed.risk)
        entry == checkEntry(id, curLat, curLon, now, risk)
        f1 == addHistory(ensure(file), cardNumber, entry)
        f2 == updateLastSeen(f1, cardNumber,
                             [lat |-> curLat, lon |-> curLon, timestamp |-> now])
        saved == getCard(f2, cardNumber)[1]
    IN  [file |-> f2,
         found |-> found,
         res |-> [code |-> 200,
                  card |-> [status |-> saved.status, reported |-> saved.reported,
                            lastSeen |-> saved.lastSeen],
                  risk |-> risk,
                  details |-> computed.details]]

\* The coordinates after the ipapi fallback: both are replaced when the
\* answer carries a truthy latitude and longitude, none otherwise.
afterLookup(curLat, curLon, outcome) ==
    IF outcome = "ok" /\ ServerLoc.latitude # 0 /\ ServerLoc.longitude # 0
    THEN [lat |-> Some(ServerLoc.latitude), lon |-> Some(ServerLoc.longitude)]
    ELSE [lat |-> curLat, lon |-> curLon]

\* What `last` keeps of a request: the handler and the fields it accepted.
checkReq(cardNumber) == [op |-> "check", cardNumber |-> cardNumber]

\* const now = ts || new Date().toISOString()
nowOf(ts, wallClock) == IF ts = None THEN wallClock ELSE ts[1]

PendingCount == Cardinality({i \in 1..MaxPending : pending[i] # None})

\* Room for one more event-producing request.
HasBudget == nextId + PendingCount <= MaxEvents

\* The run is followed until it has produced MaxEvents events.
RunOpen == nextId <= MaxEvents

\* cardNumber missing: 400 before anything is read.
CheckReject(cardNumber) ==
    /\ cardNumber = ""
    /\ RunOpen
    /\ last' = [req |-> [op |-> "check"], found |-> None,
                res |-> [code |-> 400, error |-> "cardNumber is required"]]
    /\ UNCHANGED <<dbFile, pending, clock, nextId>>

\* Both coordinates supplied: no await, the handler runs to its response.
CheckDirect(cardNumber, lat, lon, ts) ==
    /\ cardNumber # ""
    /\ lat # None /\ lon # None
    /\ HasBudget
    /\ LET out == checkBody(dbFile, cardNumber, lat, lon, nowOf(ts, clock), nextId)
       IN  /\ dbFile' = out.file
           /\ last' = [req |-> checkReq(cardNumber),
                       found |-> out.found, res |-> out.res]
    /\ nextId' = nextId + 1
    /\ UNCHANGED <<pending, clock>>

\* A coordinate is missing: now is fixed, then the handler awaits the lookup.
CheckAwait(slot, cardNumber, lat, lon, ts) ==
    /\ cardNumber # ""
    /\ lat = None \/ lon = None
    /\ HasBudget
    /\ pending[slot] = None
    /\ pending' = [pending EXCEPT ![slot] =
                      Some([cardNumber |-> cardNumber, curLat |-> lat,
                            curLon |-> lon, now |-> nowOf(ts, clock)])]
    /\ UNCHANGED <<dbFile, clock, nextId, last>>

\* Mutant of GeoReturn: the lookup is not wrapped in its own try/catch, so an
\* exception reaches the handler's catch and is answered with 500.
GeoReturn_ThrowFails(slot, outcome) ==
    /\ pending[slot] # None
    /\ LET p == pending[slot][1]
           cur == afterLookup(p.curLat, p.curLon, outcome)
           out == checkBody(dbFile, p.cardNumber, cur.lat, cur.lon, p.now, nextId)
       IN  IF outcome = "throw"
           THEN /\ dbFile' = dbFile
                /\ last' = [req |-> [op |-> "check"], found |-> None,
                            res |-> [code |-> 500, error |-> "server error"]]
                /\ nextId' = nextId
           ELSE /\ dbFile' = out.file
                /\ last' = [req |-> checkReq(p.cardNumber), found |-> out.found,
                            res |-> out.res]
                /\ nextId' = nextId + 1
    /\ pending' = [pending EXCEPT ![slot] = None]
    /\ UNCHANGED clock

\* The lookup settles and the handler runs to its response.
GeoReturn(slot, outcome) ==
    /\ pending[slot] # None
    /\ LET p == pending[slot][1]
           cur == afterLookup(p.curLat, p.curLon, outcome)
           out == checkBody(dbFile, p.cardNumber, cur.lat, cur.lon, p.now, nextId)
       IN  /\ dbFile' = out.file
           /\ last' = [req |-> checkReq(p.cardNumber), found |-> out.found, res |-> out.res]
    /\ pending' = [pending EXCEPT ![slot] = None]
    /\ nextId' = nextId + 1
    /\ UNCHANGED clock

-----------------------------------------------------------------------------
(* server.js, POST /api/action *)

actionReq(cardNumber, action) ==
    [op |-> "action", cardNumber |-> cardNumber, action |-> action]

\* Mutant of applyAction: the report case lacks its break and falls through
\* to freeze.
applyAction_ReportFallsThrough(card, action) ==
    CASE action = "continue" -> card
      [] action = "report" -> [card EXCEPT !.reported = TRUE, !.status = "frozen"]
      [] action = "freeze" -> [card EXCEPT !.status = "frozen"]
      [] action = "block" -> [card EXCEPT !.status = "blocked"]

\* Mutant of applyAction: continue puts the card back to active.
applyAction_ContinueReactivates(card, action) ==
    CASE action = "continue" -> [card EXCEPT !.status = "active"]
      [] action = "report" -> [card EXCEPT !.reported = TRUE]
      [] action = "freeze" -> [card EXCEPT !.status = "frozen"]
      [] action = "block" -> [card EXCEPT !.status = "blocked"]

\* Mutant of applyAction: report toggles the flag.
applyAction_ReportToggles(card, action) ==
    CASE action = "continue" -> card
      [] action = "report" -> [card EXCEPT !.reported = ~card.reported]
      [] action = "freeze" -> [card EXCEPT !.status = "frozen"]
      [] action = "block" -> [card EXCEPT !.status = "blocked"]

\* Mutant of applyAction: a blocked card stays blocked when frozen.
applyAction_BlockedAbsorbing(card, action) ==
    CASE action = "continue" -> card
      [] action = "report" -> [card EXCEPT !.reported = TRUE]
      [] action = "freeze" ->
            IF card.status = "blocked" THEN card
            ELSE [card EXCEPT !.status = "frozen"]
      [] action = "block" -> [card EXCEPT !.status = "blocked"]

\* The switch: the card after a recognized action.
applyAction(card, action) ==
    CASE action = "continue" -> card
      [] action = "report" -> [card EXCEPT !.reported = TRUE]
      [] action = "freeze" -> [card EXCEPT !.status = "frozen"]
      [] action = "block" -> [card EXCEPT !.status = "blocked"]

\* The history entry of an action: no lat, lon or risk.
actionEntry(id, now, action) ==
    [id |-> id, timestamp |-> now, action |-> action]

\* cardNumber or action missing: 400 before anything is read.
ActionReject(cardNumber, action) ==
    /\ cardNumber = "" \/ action = ""
    /\ RunOpen
    /\ last' = [req |-> [op |-> "action"], found |-> None,
                res |-> [code |-> 400, error |-> "cardNumber and action required"]]
    /\ UNCHANGED <<dbFile, pending, clock, nextId>>

\* Mutant of ActionUnknown: the card is saved before the switch refuses the
\* action.
ActionUnknown_SavesFirst(cardNumber, action) ==
    /\ cardNumber # "" /\ action # ""
    /\ action \notin RecognizedActions
    /\ RunOpen
    /\ LET found == getCard(dbFile, cardNumber)
           card == IF found = None THEN DefaultCard(cardNumber) ELSE found[1]
       IN  dbFile' = saveCard(ensure(dbFile), card)
    /\ last' = [req |-> [op |-> "action"], found |-> None,
                res |-> [code |-> 400, error |-> "unknown action"]]
    /\ UNCHANGED <<pending, clock, nextId>>

\* Unknown action: the card is read (which bootstraps the file), then 400.
ActionUnknown(cardNumber, action) ==
    /\ cardNumber # "" /\ action # ""
    /\ action \notin RecognizedActions
    /\ RunOpen
    /\ dbFile' = ensure(dbFile)
    /\ last' = [req |-> [op |-> "action"], found |-> None,
                res |-> [code |-> 400, error |-> "unknown action"]]
    /\ UNCHANGED <<pending, clock, nextId>>

\* Mutant of ActionApply: continue is answered without a history entry.
ActionApply_ContinueUnlogged(cardNumber, action) ==
    /\ cardNumber # ""
    /\ action \in RecognizedActions
    /\ HasBudget
    /\ LET found == getCard(dbFile, cardNumber)
           card0 == IF found = None THEN DefaultCard(cardNumber) ELSE found[1]
           card == applyAction(card0, action)
           f1 == saveCard(ensure(dbFile), card)
           f2 == IF action = "continue" THEN f1
                 ELSE addHistory(f1, cardNumber, actionEntry(nextId, clock, action))
       IN  /\ dbFile' = f2
           /\ last' = [req |-> actionReq(cardNumber, action), found |-> found,
                       res |-> [code |-> 200, ok |-> TRUE,
                                card |-> [status |-> card.status,
                                          reported |-> card.reported]]]
    /\ nextId' = nextId + 1
    /\ UNCHANGED <<pending, clock>>

\* Mutant of ActionApply: addHistory runs first and saveCard then writes the
\* record the handler read at its start.
ActionApply_SavesStaleCard(cardNumber, action) ==
    /\ cardNumber # ""
    /\ action \in RecognizedActions
    /\ HasBudget
    /\ LET found == getCard(dbFile, cardNumber)
           card0 == IF found = None THEN DefaultCard(cardNumber) ELSE found[1]
           card == applyAction(card0, action)
           f1 == addHistory(ensure(dbFile), cardNumber,
                            actionEntry(nextId, clock, action))
           f2 == saveCard(f1, card)
       IN  /\ dbFile' = f2
           /\ last' = [req |-> actionReq(cardNumber, action), found |-> found,
                       res |-> [code |-> 200, ok |-> TRUE,
                                card |-> [status |-> card.status,
                                          reported |-> card.reported]]]
    /\ nextId' = nextId + 1
    /\ UNCHANGED <<pending, clock>>

\* Recognized action: saveCard, then addHistory, then the response.
ActionApply(cardNumber, action) ==
    /\ cardNumber # ""
    /\ action \in RecognizedActions
    /\ HasBudget
    /\ LET found == getCard(dbFile, cardNumber)
           card0 == IF found = None THEN DefaultCard(cardNumber) ELSE found[1]
           card == applyAction(card0, action)
           f1 == saveCard(ensure(dbFile), card)
           f2 == addHistory(f1, cardNumber, actionEntry(nextId, clock, action))
       IN  /\ dbFile' = f2
           /\ last' = [req |-> actionReq(cardNumber, action), found |-> found,
                       res |-> [code |-> 200, ok |-> TRUE,
                                card |-> [status |-> card.status,
                                          reported |-> card.reported]]]
    /\ nextId' = nextId + 1
    /\ UNCHANGED <<pending, clock>>

-----------------------------------------------------------------------------
(* Environment and specification *)

\* Wall-clock time passes.
Tick ==
    /\ RunOpen
    /\ \E t \in Times : t > clock /\ clock' = t
    /\ UNCHANGED <<dbFile, pending, nextId, last>>

NoRequest == [req |-> [op |-> "none"], found |-> None, res |-> [code |-> 0]]

\* A fresh deployment: no data file, nothing in flight.
Init ==
    /\ dbFile = None
    /\ pending = [i \in 1..MaxPending |-> None]
    /\ clock = 0
    /\ nextId = 1
    /\ last = NoRequest

Next ==
    \/ \E c \in CardInputs : CheckReject(c)
    \/ \E c \in Cards, lat \in LatInputs, lon \in LonInputs, ts \in TsInputs :
          CheckDirect(c, lat, lon, ts)
    \/ \E i \in 1..MaxPending, c \in Cards, lat \in LatInputs, lon \in LonInputs,
          ts \in TsInputs : CheckAwait(i, c, lat, lon, ts)
    \/ \E i \in 1..MaxPending, o \in GeoOutcomes : GeoReturn(i, o)
    \/ \E c \in CardInputs, a \in ActionInputs : ActionReject(c, a)
    \/ \E c \in Cards, a \in ActionInputs : ActionUnknown(c, a)
    \/ \E c \in Cards, a \in ActionInputs : ActionApply(c, a)
    \/ Tick

Spec == Init /\ [][Next]_vars

\* POST /api/action with the body {cardNumber, action}: one of its branches.
PostAction(cardNumber, action) ==
    \/ ActionReject(cardNumber, action)
    \/ ActionUnknown(cardNumber, action)
    \/ ActionApply(cardNumber, action)

\* POST /api/check with the body {cardNumber, lat, lon, ts}, up to its
\* response or its await.
PostCheck(cardNumber, lat, lon, ts) ==
    \/ CheckReject(cardNumber)
    \/ CheckDirect(cardNumber, lat, lon, ts)
    \/ \E i \in 1..MaxPending : CheckAwait(i, cardNumber, lat, lon, ts)

\* A server started on a data file left by earlier runs: card c1 went through
\* n "continue" actions at hour 0 (identifiers -1 .. -n, newest first), with
\* n at or just below the history cap.
OldHistory(n) == [k \in 1..n |-> actionEntry(-k, 0, "continue")]

InitCap ==
    /\ \E n \in {HistoryCap - 1, HistoryCap} :
          dbFile = Some([cards |->
                     <<[DefaultCard("c1") EXCEPT !.history = OldHistory(n)]>>])
    /\ pending = [i \in 1..MaxPending |-> None]
    /\ clock = 0
    /\ nextId = 2
    /\ last = NoRequest

SpecCap == InitCap /\ [][Next]_vars

\* db.getCard(cardNumber) called on its own: the lookup answers and the only
\* effect is readDB's bootstrap of the file.
getReq(cardNumber) == [op |-> "get", cardNumber |-> cardNumber]

\* Mutant of GetCard: a lookup that finds nothing stores a default record.
GetCard_Upserts(cardNumber) ==
    /\ RunOpen
    /\ dbFile' = IF getCard(dbFile, cardNumber) = None
                 THEN saveCard(ensure(dbFile), DefaultCard(cardNumber))
                 ELSE ensure(dbFile)
    /\ last' = [req |-> getReq(cardNumber), found |-> getCard(dbFile, cardNumber),
                res |-> [code |-> 200]]
    /\ UNCHANGED <<pending, clock, nextId>>

GetCard(cardNumber) ==
    /\ RunOpen
    /\ dbFile' = ensure(dbFile)
    /\ last' = [req |-> getReq(cardNumber), found |-> getCard(dbFile, cardNumber),
                res |-> [code |-> 200]]
    /\ UNCHANGED <<pending, clock, nextId>>

\* GET /api/cards: res.json(db.getAllCards()).
ListCards ==
    /\ RunOpen
    /\ dbFile' = ensure(dbFile)
    /\ last' = [req |-> [op |-> "list"], found |-> None,
                res |-> [code |-> 200, cards |-> getAllCards(dbFile)]]
    /\ UNCHANGED <<pending, clock, nextId>>

NextRead ==
    \/ Next
    \/ \E c \in Cards : GetCard(c)
    \/ ListCards

\* The handlers together with the reads.
SpecRead == Init /\ [][NextRead]_vars

\* The scoring of lines 62-80 on its own, for an active card with a
\* comparable prior location: the distance and the two timestamps are drawn
\* from sets that hold the threshold values and their neighbours.
RuleDistances == {0, 100, 101, 500, 501, 1000}
RuleTimes == {0, 5, 6, 23, 24, 30}

scoreReq(distKm, lastTs, now) ==
    [op |-> "score", distKm |-> distKm, lastTs |-> lastTs, now |-> now]

InitRule ==
    /\ dbFile = None
    /\ pending = [i \in 1..MaxPending |-> None]
    /\ clock = 0
    /\ nextId = 1
    /\ \E d \in RuleDistances, p \in RuleTimes, n \in RuleTimes :
          last = [req |-> scoreReq(d, p, n), found |-> None, res |-> [code |-> 0]]

Score ==
    /\ last.req.op = "score" /\ last.res.code = 0
    /\ LET diffHours == diffHoursOf(last.req.now, last.req.lastTs)
           risk == statusOverride("active", RiskRule(last.req.distKm, diffHours))
       IN  last' = [last EXCEPT !.res =
                       [code |-> 200, risk |-> risk,
                        details |-> [distance_km |-> last.req.distKm,
                                     hours_since_last |-> diffHours]]]
    /\ UNCHANGED <<dbFile, pending, clock, nextId>>

SpecRule == InitRule /\ [][Score]_vars

-----------------------------------------------------------------------------
(* Views of the state used by the properties *)

StoredCards == IF dbFile = None THEN <<>> ELSE dbFile[1].cards

HasCard(c) == \E i \in 1..Len(StoredCards) : StoredCards[i].cardNumber = c

\* The stored record of c (the first one, as getCard finds it).
Stored(c) == StoredCards[findIndex(StoredCards, c)]

TypeOK ==
    /\ clock \in Times
    /\ nextId \in 1..(MaxEvents + 1)
    /\ \A i \in 1..Len(StoredCards) :
          /\ StoredCards[i].cardNumber \in Cards
          /\ StoredCards[i].status \in {"active", "frozen", "blocked"}
          /\ StoredCards[i].reported \in BOOLEAN

\* The record a handler works on when it reads c: the stored one, or the
\* defaults of an unseen card.
Prior(c) == IF HasCard(c) THEN Stored(c) ELSE DefaultCard(c)

\* This step is a check on c running to its response.
CheckCompletes(c) == nextId' = nextId + 1 /\ last'.req = checkReq(c)

\* This step is the recognized action a on c running to its response.
ActionCompletes(c, a) == nextId' = nextId + 1 /\ last'.req = actionReq(c, a)

\* This step is a check or a recognized action on c running to its response.
RequestCompletes(c) == nextId' = nextId + 1 /\ last'.req.cardNumber = c

Min(a, b) == IF a <= b THEN a ELSE b

\* The number of events stored for c, 0 while c has no record.
HistoryLen(c) == IF HasCard(c) THEN Len(Stored(c).history) ELSE 0

\* The number of events stored for the cards in S.
RECURSIVE TotalHistory(_)
TotalHistory(S) ==
    IF S = {} THEN 0
    ELSE LET c == CHOOSE x \in S : TRUE
         IN  HistoryLen(c) + TotalHistory(S \ {c})

\* The actions that set a status.
StatusActions == {"freeze", "block"}

\* The kind of the newest freeze or block event of a history, None when it
\* holds none (histories are newest-first).
LastStatusAction(h) ==
    LET S == {k \in 1..Len(h) : h[k].action \in StatusActions}
    IN  IF S = {} THEN None
        ELSE Some(h[CHOOSE k \in S : \A m \in S : k <= m].action)

-----------------------------------------------------------------------------
(* Properties *)

\* C1: a check on a card whose stored status is blocked returns and records
\* the risk BLOCKED, and one on a frozen card returns and records FROZEN,
\* whatever the distance/time rule computed and whether or not the card had a
\* prior location.
C1_StatusOverride ==
    [][\A c \in Cards :
          CheckCompletes(c) /\ Prior(c).status \in {"blocked", "frozen"} =>
             LET forced == IF Prior(c).status = "blocked" THEN "BLOCKED"
                           ELSE "FROZEN"
                 head == Head(Stored(c).history)'
             IN  /\ last'.res.code = 200
                 /\ last'.res.risk = forced
                 /\ head.action = "checked"
                 /\ head.risk = forced]_vars

\* C1 witness: a check on a blocked card answered BLOCKED although its
\* distance and elapsed time are in the HIGH range.
C1_Witness ==
    /\ last.req.op = "check" /\ last.res.code = 200
    /\ last.found # None /\ last.found[1].status = "blocked"
    /\ last.res.risk = "BLOCKED"
    /\ "distance_km" \in DOMAIN last.res.details
    /\ last.res.details.distance_km > 500
    /\ last.res.details.hours_since_last < 6
    /\ Head(Stored(last.req.cardNumber).history).risk = "BLOCKED"

\* C2: no history is ever longer than 200 entries, and a check or action that
\* completes on a card whose history holds 200 entries leaves the new entry
\* followed by the 199 newest old ones (only the single oldest entry is
\* dropped).
C2_HistoryCap ==
    /\ [](\A c \in Cards : HasCard(c) => Len(Stored(c).history) <= HistoryCap)
    /\ [][\A c \in Cards :
             /\ HasCard(c)
             /\ Len(Stored(c).history) = HistoryCap
             /\ RequestCompletes(c)
             => LET h == Stored(c).history
                    hn == Stored(c)'.history
                IN  /\ Len(hn) = HistoryCap
                    /\ hn[1].id = nextId
                    /\ \A k \in 1..Len(h) : h[k].id # nextId
                    /\ SubSeq(hn, 2, HistoryCap) = SubSeq(h, 1, HistoryCap - 1)]_vars

\* C2 witness: a request has completed on a card whose history was full, and
\* the history is still full with that request's entry at its head.
C2_Witness ==
    /\ last.res.code = 200
    /\ last.found # None /\ Len(last.found[1].history) = HistoryCap
    /\ Len(Stored(last.req.cardNumber).history) = HistoryCap
    /\ Head(Stored(last.req.cardNumber).history).id = nextId - 1

\* A request body that validation must refuse.
BadActionBody(cardNumber, action) ==
    cardNumber = "" \/ action = "" \/ action \notin RecognizedActions

\* C3: an action request with an unknown action, a missing action or a
\* missing cardNumber, and a check request with a missing cardNumber, is
\* answered with an error and leaves the stored card records as they were.
C3_RejectedUnchanged ==
    [][/\ \A c \in CardInputs, a \in ActionInputs :
             BadActionBody(c, a) /\ PostAction(c, a) =>
                /\ last'.res.code = 400
                /\ StoredCards' = StoredCards
                /\ nextId' = nextId
       /\ \A lat \in LatInputs, lon \in LonInputs, ts \in TsInputs :
             PostCheck("", lat, lon, ts) =>
                /\ last'.res.code = 400
                /\ StoredCards' = StoredCards
                /\ nextId' = nextId
                /\ pending' = pending]_vars

\* C3 witness: an unknown action was refused while card records exist.
C3_Witness ==
    /\ last.req.op = "action" /\ last.res.code = 400
    /\ last.res.error = "unknown action"
    /\ Len(StoredCards) > 0

\* C4: after a recognized action, report leaves reported = TRUE and the
\* status as it was, freeze leaves status = frozen and reported as it was,
\* block leaves status = blocked and reported as it was, and continue leaves
\* both as they were.
C4_ActionTransitions ==
    [][\A c \in Cards, a \in RecognizedActions :
          ActionCompletes(c, a) =>
             /\ HasCard(c)'
             /\ Stored(c)'.status =
                   (CASE a = "freeze" -> "frozen"
                      [] a = "block" -> "blocked"
                      [] OTHER -> Prior(c).status)
             /\ Stored(c)'.reported =
                   (IF a = "report" THEN TRUE ELSE Prior(c).reported)
             /\ last'.res.card.status = Stored(c)'.status
             /\ last'.res.card.reported = Stored(c)'.reported]_vars

\* C4 witness: a block action has completed on a card that was reported and
\* frozen before, and the card is blocked and still reported.
C4_Witness ==
    /\ last.req.op = "action" /\ last.res.code = 200
    /\ last.req.action = "block"
    /\ last.found # None
    /\ last.found[1].reported /\ last.found[1].status = "frozen"
    /\ Stored(last.req.cardNumber).status = "blocked"
    /\ Stored(last.req.cardNumber).reported

\* C5: a recognized action puts exactly one new event at the head of the
\* card's history, carrying the action identifier and no risk field, with
\* the earlier entries behind it; also for a card not seen before.
C5_ActionLogged ==
    [][\A c \in Cards, a \in RecognizedActions :
          ActionCompletes(c, a) =>
             LET h == Prior(c).history
                 hn == Stored(c)'.history
             IN  /\ HasCard(c)'
                 /\ Len(hn) = Min(Len(h) + 1, HistoryCap)
                 /\ hn[1].action = a
                 /\ hn[1].id = nextId
                 /\ DOMAIN hn[1] = {"id", "timestamp", "action"}
                 /\ SubSeq(hn, 2, Len(hn)) = SubSeq(h, 1, Len(hn) - 1)]_vars

\* C5 witness: a continue action on a card not seen before has created the
\* card with that single event.
C5_Witness ==
    /\ last.req.op = "action" /\ last.res.code = 200
    /\ last.req.action = "continue"
    /\ last.found = None
    /\ Len(StoredCards) = 2
    /\ Len(Stored(last.req.cardNumber).history) = 1
    /\ Head(Stored(last.req.cardNumber).history).action = "continue"

\* C6: once a card's stored status is frozen or blocked it is frozen or
\* blocked after every further step (it never returns to active and the
\* record does not disappear).
C6_StatusNeverActiveAgain ==
    [][\A c \in Cards :
          HasCard(c) /\ Stored(c).status \in {"frozen", "blocked"} =>
             /\ HasCard(c)'
             /\ Stored(c)'.status \in {"frozen", "blocked"}]_vars

\* C6 witness: a continue action or a check has completed on a card that was
\* frozen or blocked, and the card is still frozen or blocked.
C6_Witness ==
    /\ last.res.code = 200
    /\ last.req.op = "check" \/ last.req.action = "continue"
    /\ last.found # None /\ last.found[1].status \in {"frozen", "blocked"}
    /\ Stored(last.req.cardNumber).status \in {"frozen", "blocked"}

\* C7: once a card's stored reported flag is true it is true after every
\* further step.
C7_ReportedSticky ==
    [][\A c \in Cards :
          HasCard(c) /\ Stored(c).reported =>
             HasCard(c)' /\ Stored(c)'.reported]_vars

\* C7 witness: a second report, or a check, has completed on a card that was
\* already reported, and the flag is still set.
C7_Witness ==
    /\ last.res.code = 200
    /\ last.req.op = "check" \/ last.req.action = "report"
    /\ last.found # None /\ last.found[1].reported
    /\ Stored(last.req.cardNumber).reported

\* The record a first check on c leaves: the defaults, one "checked" event
\* and that event's observation as lastSeen.
CreatedByCheck(c, r) ==
    /\ [r EXCEPT !.history = <<>>, !.lastSeen = None] = DefaultCard(c)
    /\ Len(r.history) = 1
    /\ r.history[1].action = "checked"
    /\ r.lastSeen = Some([lat |-> r.history[1].lat, lon |-> r.history[1].lon,
                          timestamp |-> r.history[1].timestamp])

\* The record a first action a on c leaves: the defaults changed by a alone
\* and one event for a.
CreatedByAction(c, a, r) ==
    /\ r.cardNumber = c
    /\ r.lastSeen = None
    /\ r.status = (CASE a = "freeze" -> "frozen"
                     [] a = "block" -> "blocked"
                     [] OTHER -> "active")
    /\ r.reported = (a = "report")
    /\ Len(r.history) = 1
    /\ r.history[1].action = a

\* C8: the collection never holds two records with the same cardNumber; a
\* record appears only by the first check or recognized action naming an
\* unseen cardNumber, which creates it from the defaults; and a record that
\* is present stays present.
C8_OneRecordPerCard ==
    /\ [](\A i, j \in 1..Len(StoredCards) :
             StoredCards[i].cardNumber = StoredCards[j].cardNumber => i = j)
    /\ [][\A c \in Cards :
             /\ HasCard(c) => HasCard(c)'
             /\ ~HasCard(c) /\ HasCard(c)' =>
                   \/ CheckCompletes(c) /\ CreatedByCheck(c, Stored(c)')
                   \/ \E a \in RecognizedActions :
                         ActionCompletes(c, a) /\ CreatedByAction(c, a, Stored(c)')
             /\ ~HasCard(c) /\ (CheckCompletes(c) \/ \E a \in RecognizedActions :
                                                       ActionCompletes(c, a))
                   => HasCard(c)']_vars

\* C8 witness: both cards are stored, each once, after three requests of
\* which the last created a record by a check.
C8_Witness ==
    /\ Len(StoredCards) = 2
    /\ nextId = 4
    /\ last.req.op = "check" /\ last.res.code = 200 /\ last.found = None

\* The observation a history event of a check carries.
ObservationOf(entry) ==
    [lat |-> entry.lat, lon |-> entry.lon, timestamp |-> entry.timestamp]

\* C9 as stated: whenever a set lastSeen changes, the new timestamp is
\* strictly later than the one it replaces.
C9_StrictlyNewer ==
    [][\A c \in Cards :
          /\ HasCard(c) /\ Stored(c).lastSeen # None
          /\ Stored(c)'.lastSeen # Stored(c).lastSeen
          => Stored(c)'.lastSeen[1].timestamp > Stored(c).lastSeen[1].timestamp]_vars

\* C9 as amended: lastSeen changes only when a check on that card completes,
\* and every completing check replaces it by its own observation (the one in
\* the event it appends), whether that timestamp is later than, equal to or
\* earlier than the one replaced.
C9_ReplacedByEveryCheck ==
    [][\A c \in Cards :
          /\ CheckCompletes(c) =>
                /\ HasCard(c)'
                /\ Head(Stored(c)'.history).id = nextId
                /\ Stored(c)'.lastSeen = Some(ObservationOf(Head(Stored(c)'.history)))
          /\ HasCard(c)' /\ Stored(c)'.lastSeen # Prior(c).lastSeen
                => CheckCompletes(c)]_vars

\* C9 witness: a check has replaced a lastSeen by an observation with an
\* earlier timestamp.
C9_Witness ==
    /\ last.req.op = "check" /\ last.res.code = 200
    /\ last.found # None /\ last.found[1].lastSeen # None
    /\ Stored(last.req.cardNumber).lastSeen[1].timestamp
          < last.found[1].lastSeen[1].timestamp

\* C10 as stated: a check on an active card with no prior lastSeen, or with an
\* unresolved current coordinate, or with an unresolved coordinate in the
\* stored lastSeen, answers LOW with the note and no distance/hours details.
C10_UnresolvedIsLow ==
    last.req.op = "check" /\ last.res.code = 200 =>
       LET prior == IF last.found = None THEN DefaultCard(last.req.cardNumber)
                    ELSE last.found[1]
           cur == last.res.card.lastSeen[1]
       IN  /\ prior.status = "active"
           /\ \/ prior.lastSeen = None
              \/ cur.lat = None \/ cur.lon = None
              \/ prior.lastSeen[1].lat = None \/ prior.lastSeen[1].lon = None
           => /\ last.res.risk = "LOW"
              /\ DOMAIN last.res.details = {"note"}

\* C11: for an active card with a comparable prior location the risk is HIGH
\* exactly when distance > 500 km and elapsed < 6 h, MEDIUM exactly when that
\* fails and distance > 100 km and elapsed < 24 h, and LOW otherwise, where
\* elapsed is the difference of the two timestamps whichever is the later.
C11_Thresholds ==
    last.req.op = "score" /\ last.res.code = 200 =>
       LET d == last.req.distKm
           e == IF last.req.now >= last.req.lastTs
                THEN last.req.now - last.req.lastTs
                ELSE last.req.lastTs - last.req.now
           far == d > 500 /\ e < 6
           near == d > 100 /\ e < 24
       IN  /\ last.res.risk \in {"HIGH", "MEDIUM", "LOW"}
           /\ last.res.risk = "HIGH" <=> far
           /\ last.res.risk = "MEDIUM" <=> ~far /\ near
           /\ last.res.risk = "LOW" <=> ~near
           /\ last.res.details.hours_since_last = e

\* C11 witness: a check exactly on the 500 km threshold, 5 hours older than
\* the stored lastSeen, has been scored MEDIUM.
C11_Witness ==
    /\ last.req.op = "score" /\ last.res.code = 200
    /\ last.req.distKm = 500
    /\ last.req.lastTs - last.req.now = 5
    /\ last.res.risk = "MEDIUM"

\* C13: a read (getCard, or the card list) changes no record: its bootstrap
\* creates the empty collection when the file is absent and leaves an
\* existing file as it is, and a second getCard for the same cardNumber, with
\* no mutation in between, returns what the first returned.
C13_ReadsIdempotent ==
    /\ [](last.req.op = "get" =>
             /\ dbFile # None
             /\ ensure(dbFile) = dbFile
             /\ getCard(dbFile, last.req.cardNumber) = last.found)
    /\ [][(ListCards \/ \E c \in Cards : GetCard(c)) =>
             /\ dbFile = None => dbFile' = Some([cards |-> <<>>])
             /\ dbFile # None => dbFile' = dbFile
             /\ StoredCards' = StoredCards]_vars

\* C13 witness: getCard has returned a stored record that carries history,
\* and the stored record still equals it.
C13_Witness ==
    /\ last.req.op = "get"
    /\ last.found # None
    /\ Len(last.found[1].history) >= 2
    /\ Stored(last.req.cardNumber) = last.found[1]

\* C14: a check that lacks a coordinate and whose lookup throws runs on to
\* its response: it answers 200, appends one "checked" event carrying the
\* coordinates as the request gave them (the missing ones absent), sets
\* lastSeen to that observation, and scores it as having no comparable
\* location (the note, LOW unless a status override applies).
C14_LookupFailureTolerated ==
    [][\A i \in 1..MaxPending, c \in Cards :
             /\ pending[i] # None /\ pending[i][1].cardNumber = c
             /\ GeoReturn(i, "throw")
             => LET p == pending[i][1]
                    hn == Stored(c)'.history
                IN  /\ last'.req = checkReq(c)
                    /\ last'.res.code = 200
                    /\ HasCard(c)'
                    /\ Len(hn) = Min(Len(Prior(c).history) + 1, HistoryCap)
                    /\ hn[1].id = nextId
                    /\ hn[1].action = "checked"
                    /\ hn[1].lat = p.curLat /\ hn[1].lon = p.curLon
                    /\ hn[1].lat = None \/ hn[1].lon = None
                    /\ Stored(c)'.lastSeen =
                          Some([lat |-> p.curLat, lon |-> p.curLon,
                                timestamp |-> p.now])
                    /\ last'.res.details = [note |-> NoteText]
                    /\ last'.res.risk =
                          (CASE Prior(c).status = "blocked" -> "BLOCKED"
                             [] Prior(c).status = "frozen" -> "FROZEN"
                             [] OTHER -> "LOW")]_vars

\* C14 witness: a check without coordinates has completed on a card that had
\* a resolved lastSeen, and the stored lastSeen now has no coordinates.
C14_Witness ==
    /\ last.req.op = "check" /\ last.res.code = 200
    /\ last.found # None /\ last.found[1].lastSeen # None
    /\ last.found[1].lastSeen[1].lat # None
    /\ Stored(last.req.cardNumber).lastSeen[1].lat = None
    /\ Stored(last.req.cardNumber).lastSeen[1].lon = None
    /\ Head(Stored(last.req.cardNumber).history).lat = None
    /\ last.res.details = [note |-> NoteText]

\* C15: every check that answers 200 puts exactly one new event in front of
\* the card's history (the older ones move down one place, up to the cap),
\* that event has action "checked" and the risk the response returns, and
\* the stored lastSeen, which the response echoes, is then the (lat, lon,
\* timestamp) of that event, for every risk and status and also when a
\* coordinate is missing.
C15_CheckAppendsThenOverwrites ==
    [][\A c \in Cards :
          CheckCompletes(c) =>
             LET old == Prior(c).history
                 hn == Stored(c)'.history
             IN  /\ last'.res.code = 200
                 /\ HasCard(c)'
                 /\ Len(hn) = Min(Len(old) + 1, HistoryCap)
                 /\ \A k \in 2..Len(hn) : hn[k] = old[k - 1]
                 /\ hn[1].id = nextId
                 /\ hn[1].action = "checked"
                 /\ hn[1].risk = last'.res.risk
                 /\ Stored(c)'.lastSeen =
                       Some([lat |-> hn[1].lat, lon |-> hn[1].lon,
                             timestamp |-> hn[1].timestamp])
                 /\ last'.res.card.lastSeen = Stored(c)'.lastSeen]_vars

\* C15 witness: a check with a missing coordinate has completed on a blocked
\* or frozen card that had a different lastSeen, and lastSeen is now the
\* observation of the "checked" event at the head of the history.
C15_Witness ==
    /\ last.req.op = "check" /\ last.res.code = 200
    /\ last.res.risk \in {"BLOCKED", "FROZEN"}
    /\ last.found # None /\ last.found[1].lastSeen # None
    /\ LET card == Stored(last.req.cardNumber)
       IN  /\ card.lastSeen # last.found[1].lastSeen
           /\ card.lastSeen[1].lat = None
           /\ Head(card.history).action = "checked"
           /\ Head(card.history).risk = last.res.risk
           /\ card.lastSeen = Some(ObservationOf(Head(card.history)))

\* C16: in every stored history the events stand in the reverse of the order
\* in which the requests appended them (event ids are handed out in append
\* order, so they strictly decrease from the head), and after a check or a
\* recognized action has completed, index 0 of its card's history is the
\* event that request appended; the events' timestamps play no part.
C16_NewestFirstByAppend ==
    /\ \A i \in 1..Len(StoredCards) :
          LET h == StoredCards[i].history
          IN  \A k \in 1..(Len(h) - 1) : h[k].id > h[k + 1].id
    /\ last.res.code = 200 /\ last.req.op \in {"check", "action"}
          => /\ HasCard(last.req.cardNumber)
             /\ Head(Stored(last.req.cardNumber).history).id = nextId - 1

\* C16 witness: a history of three events appended by interleaved checks and
\* actions, in which the newest event carries an earlier timestamp than the
\* one below it.
C16_Witness ==
    \E c \in Cards :
       /\ HasCard(c)
       /\ LET h == Stored(c).history
          IN  /\ Len(h) = 3
              /\ h[1].timestamp < h[2].timestamp
              /\ h[1].action = "checked"
              /\ h[2].action # "checked"
              /\ h[3].action = "checked"

\* C17: a check reads the card when its lookup returns, not when the request
\* arrived: whenever a pending check resumes on a card whose newest freeze or
\* block event is a block, it answers BLOCKED and records a "checked" event
\* with risk BLOCKED; and in every history, a "checked" event that stands
\* above a freeze or block event has risk BLOCKED or FROZEN, never LOW,
\* MEDIUM or HIGH.
C17_CheckSeesCompletedBlock ==
    /\ [](\A i \in 1..Len(StoredCards) :
            LET h == StoredCards[i].history
            IN  \A j \in 1..Len(h), k \in 1..Len(h) :
                   /\ j < k
                   /\ h[j].action = "checked"
                   /\ h[k].action \in StatusActions
                   => h[j].risk \in {"BLOCKED", "FROZEN"})
    /\ [][\A i \in 1..MaxPending, c \in Cards :
            /\ pending[i] # None /\ pending[i][1].cardNumber = c
            /\ HasCard(c)
            /\ LastStatusAction(Stored(c).history) = Some("block")
            /\ \E o \in GeoOutcomes : GeoReturn(i, o)
            => /\ last'.req = checkReq(c)
               /\ last'.res.risk = "BLOCKED"
               /\ Head(Stored(c)'.history).action = "checked"
               /\ Head(Stored(c)'.history).id = nextId
               /\ Head(Stored(c)'.history).risk = "BLOCKED"]_vars

\* C17 witness: a check stamped 0 that went through the lookup (its
\* coordinates are the looked-up ones) has answered BLOCKED; below its event
\* stands a block logged at time 19, and below that a check the card passed
\* while still active.
C17_Witness ==
    /\ last.req.op = "check" /\ last.res.code = 200
    /\ last.res.risk = "BLOCKED"
    /\ LET h == Stored(last.req.cardNumber).history
       IN  /\ Len(h) = 3
           /\ h[1].action = "checked" /\ h[1].risk = "BLOCKED"
           /\ h[1].timestamp = 0
           /\ h[1].lat = Some(ServerLoc.latitude)
           /\ h[2].action = "block" /\ h[2].timestamp = 19
           /\ h[3].action = "checked" /\ h[3].risk \in {"LOW", "MEDIUM", "HIGH"}

\* C18: blocked is not absorbing.  While a history has lost nothing to the
\* cap, the stored status is the kind of its newest freeze or block event
\* (frozen after a freeze, also on a blocked card; blocked after a block;
\* active when there is none), and the check that completed last returned
\* the risk that goes with the freeze or block event newest at that time:
\* FROZEN after a freeze, BLOCKED after a block, a computed risk otherwise.
C18_StatusIsLastFreezeOrBlock ==
    /\ \A i \in 1..Len(StoredCards) :
          LET card == StoredCards[i]
              k == LastStatusAction(card.history)
          IN  Len(card.history) < HistoryCap =>
                 card.status = (CASE k = Some("freeze") -> "frozen"
                                  [] k = Some("block") -> "blocked"
                                  [] OTHER -> "active")
    /\ last.req.op = "check" /\ last.res.code = 200
          => LET h == Stored(last.req.cardNumber).history
                 k == LastStatusAction(Tail(h))
             IN  /\ Head(h).action = "checked"
                 /\ Head(h).risk = last.res.risk
                 /\ k = Some("freeze") => last.res.risk = "FROZEN"
                 /\ k = Some("block") => last.res.risk = "BLOCKED"
                 /\ k = None => last.res.risk \in {"LOW", "MEDIUM", "HIGH"}

\* C18 witness: a card was blocked, then frozen, and the check after that
\* returned FROZEN; its stored status is frozen.
C18_Witness ==
    /\ last.req.op = "check" /\ last.res.code = 200
    /\ last.res.risk = "FROZEN"
    /\ Stored(last.req.cardNumber).status = "frozen"
    /\ LET h == Stored(last.req.cardNumber).history
       IN  /\ Len(h) = 3
           /\ h[1].action = "checked" /\ h[1].risk = "FROZEN"
           /\ h[2].action = "freeze"
           /\ h[3].action = "block"

\* C19: frame conditions.  A check that completes leaves the status and the
\* reported flag of its card as they were (as the defaults, for a new card);
\* a recognized action that completes leaves the card's lastSeen as it was;
\* and a completing check or action on a card neither adds, removes nor
\* changes the record of any other card.
C19_FrameConditions ==
    [][\A c \in Cards :
          /\ CheckCompletes(c) =>
                /\ HasCard(c)'
                /\ Stored(c)'.status = Prior(c).status
                /\ Stored(c)'.reported = Prior(c).reported
          /\ \A a \in RecognizedActions :
                ActionCompletes(c, a) =>
                   /\ HasCard(c)'
                   /\ Stored(c)'.lastSeen = Prior(c).lastSeen
          /\ RequestCompletes(c) =>
                \A d \in Cards \ {c} :
                   /\ HasCard(d)' = HasCard(d)
                   /\ HasCard(d) => Stored(d)' = Stored(d)]_vars

\* C19 witness: two cards are stored; the last request was a check on one
\* of them that found it frozen or blocked and left it so, and the other
\* card carries a status an action gave it.
C19_Witness ==
    /\ last.req.op = "check" /\ last.res.code = 200
    /\ last.found # None /\ last.found[1].status # "active"
    /\ Stored(last.req.cardNumber).status = last.found[1].status
    /\ \E d \in Cards \ {last.req.cardNumber} :
          HasCard(d) /\ Stored(d).status # "active"

\* C20: in one server process no event is lost to an interleaving.  Every
\* step changes the length of a card's history only when a check or a
\* recognized action on that card completes, and then by exactly one (up to
\* the cap of 200); so, from an empty store, the events stored over all cards
\* number as many as the checks and recognized actions that have completed.
C20_HistoryCountsRequests ==
    /\ [](TotalHistory(Cards) = nextId - 1)
    /\ [][\A c \in Cards :
            HistoryLen(c)' = IF RequestCompletes(c)
                             THEN Min(HistoryLen(c) + 1, HistoryCap)
                             ELSE HistoryLen(c)]_vars

\* C20 witness: three requests have completed, two on one card and one on
\* the other; the newest event of the first card is a check that waited for
\* its lookup, and no check is pending.
C20_Witness ==
    /\ nextId = 4
    /\ \A i \in 1..MaxPending : pending[i] = None
    /\ \E c \in Cards, d \in Cards :
          /\ c # d
          /\ HistoryLen(c) = 2 /\ HistoryLen(d) = 1
          /\ Head(Stored(c).history).action = "checked"
          /\ Head(Stored(c).history).lat = Some(ServerLoc.latitude)
          /\ Head(Stored(d).history).action \in RecognizedActions
          /\ Head(Stored(d).history).id = 2

====
